---------------------------- MODULE Spec2Model ----------------------------
(***************************************************************************)
(* Model of the device-side warp primitives of AMGX (namespace utils):     *)
(* atomics, vote collectives, shuffles and the warp reduction engine, and  *)
(* of gaussianElimination4by4 (gaussian_elimination.h).                    *)
(*                                                                         *)
(* Conventions                                                             *)
(*  - A 64-bit pattern is a tuple <<l3, l2, l1, l0>> of four 16-bit limbs  *)
(*    (l3 most significant), because 2^64 does not fit the checker's       *)
(*    integers.  An unsigned long long is such a tuple; an int64_t VALUE   *)
(*    is the tuple with a signed top limb in -32768..32767, so that        *)
(*    value = l3*2^48 + l2*2^32 + l1*2^16 + l0 in both cases.              *)
(*  - A 32-bit lane mask is the set of its set bit positions (0..31).      *)
(*  - real32/real64 values are integers (exact addition); the real64 bit   *)
(*    pattern is the IEEE-754 binary64 encoding of that integer.           *)
(***************************************************************************)
EXTENDS Integers, Sequences, FiniteSets, TLC

\* ------------------------------------------------------------------------
\* Bounds of the model
\* ------------------------------------------------------------------------
NThreads == 2

\* ------------------------------------------------------------------------
\* State
\* ------------------------------------------------------------------------
VARIABLES
    \* --- atomic_add: threads adding into one shared object
    kind,       \* overload every thread of the run calls on the shared address
    arch600,    \* TRUE iff the build has __CUDA_ARCH__ >= 600
    mem,        \* the object at the address: [re, im]; scalars use re only
    v0,         \* the values the object held before the first call
    value,      \* value[t]: the delta thread t passes, [re, im] (scalars: re)
    pc,         \* pc[t]: "start" | "loop" | "done"
    idx,        \* idx[t]: 1 while on the first scalar add, 2 on the second
    old,        \* old[t]: local `old` of the CAS loop
    retried,    \* retried[t]: TRUE once a CAS attempt of thread t has failed
    seen,       \* <<>> or <<m>>: the object as one concurrent reader saw it
    \* --- atomic_CAS: threads swapping one shared integer
    casWidth,   \* 32 or 64: the overload the run uses
    casMem,     \* the integer at the address (an int, or a 64-bit pattern)
    lastCas,    \* the latest call: [thread, compare, val, ret]
    \* --- the build
    cudart9,    \* TRUE iff the build has CUDART_VERSION >= 9000
    \* --- ballot: one call site executed by the lanes of a warp
    voteP,      \* voteP[l]: the predicate lane l holds
    voteMask,   \* the mask argument of the observed group of callers
    voteActive, \* the lanes executing the call together
    voteOut,    \* <<>> or <<b>>: the bitmask returned to the group
    \* --- syncwarp: lanes meeting at a barrier
    syncMask,   \* the mask argument every caller passes
    syncComing, \* the lanes that will reach the call
    syncPc,     \* syncPc[l]: "before" | "inside" | "after"
    \* --- shuffle: one collective call executed by the lanes of a warp
    shMode,     \* the collective called: "idx" (shfl) | "xor" | "down" | "up"
    shType,     \* value type of the overload called
    shIn,       \* shIn[l]: the value lane l passes
    shLane,     \* shLane[l]: the lane argument lane l passes
    shBound,    \* the bound (groupWidth) argument
    shMask,     \* the mask argument
    shActive,   \* the lanes executing the call
    shOut,      \* <<>> or <<v>>: v[l] the value returned to lane l
    shCalls,    \* the primitive shuffles issued: [hasMask, mask, width] each
    \* --- warp reduction: one execute() run by a full warp
    rdEntry,    \* the template instantiated by the caller
    rdN,        \* NUM_THREADS_PER_ITEM
    rdIn,       \* rdIn[l]: the value lane l passes
    rdX,        \* rdX[l]: lane l's x
    rdI,        \* the loop variable (mask of the butterfly, i of the linear loop)
    rdSteps,    \* shuffle steps performed so far
    rdPc,       \* "loop" | "done"
    \* --- gaussianElimination4by4: one call on a 4x4 system
    geE0,       \* the matrix E as passed in
    geB0,       \* the right-hand side b as passed in
    geE,        \* E, overwritten in place by the elimination
    geB,        \* b, overwritten in place by the elimination
    geX,        \* x
    gePc        \* next block of the function: "j0" | "j1" | "j2" | "back" | "done"

atomicVars == <<kind, arch600, mem, v0, value, pc, idx, old, retried, seen>>

casVars == <<casWidth, casMem, lastCas>>

voteVars == <<voteP, voteMask, voteActive, voteOut>>

syncVars == <<syncMask, syncComing, syncPc>>

shflVars == <<shMode, shType, shIn, shLane, shBound, shMask, shActive, shOut, shCalls>>

reduceVars == <<rdEntry, rdN, rdIn, rdX, rdI, rdSteps, rdPc>>

gaussVars == <<geE0, geB0, geE, geB, geX, gePc>>

vars == <<atomicVars, casVars, cudart9, voteVars, syncVars, shflVars, reduceVars, gaussVars>>

\* ------------------------------------------------------------------------
\* Arithmetic helpers
\* ------------------------------------------------------------------------
RECURSIVE Pow2(_)
Pow2(n) == IF n <= 0 THEN 1 ELSE 2 * Pow2(n - 1)

RECURSIVE Log2Floor(_)
Log2Floor(a) == IF a <= 1 THEN 0 ELSE 1 + Log2Floor(a \div 2)

Abs(n) == IF n < 0 THEN -n ELSE n

Limb == 65536

HalfLimb == 32768

\* ------------------------------------------------------------------------
\* Integer conversions between int64_t / long long and unsigned long long
\* ------------------------------------------------------------------------
\* (unsigned long long) x for a signed 64-bit value x: x modulo 2^64.
ToUnsignedLongLong(x) == [x EXCEPT ![1] = @ % Limb]

\* (int64_t) u / implicit conversion to long long: two's complement value.
ToLongLong(u) == [u EXCEPT ![1] = IF @ >= HalfLimb THEN @ - Limb ELSE @]

\* ------------------------------------------------------------------------
\* real64 <-> bit pattern (IEEE-754 binary64, integers of magnitude < 2^20)
\* ------------------------------------------------------------------------
ExpBias == 1023

MantTopBits == 20

\* The binary64 encoding of the integer d.
EncodeDouble(d) ==
    IF d = 0 THEN <<0, 0, 0, 0>>
    ELSE LET a    == Abs(d)
             e    == Log2Floor(a)
             m20  == (a - Pow2(e)) * Pow2(MantTopBits - e)
             sign == IF d < 0 THEN 1 ELSE 0
             top  == sign * HalfLimb + (e + ExpBias) * 16 + (m20 \div Limb)
         IN  ToLongLong(<<top, m20 % Limb, 0, 0>>)

\* __double_as_longlong: the bit pattern of a double, as a (signed) long long.
\* The operand is evaluated once, whatever expression it is given as.
double_as_longlong(operand) == CHOOSE x \in {EncodeDouble(d) : d \in {operand}} : TRUE

\* The integer a binary64 pattern encodes.
DecodeDouble(x) ==
    LET u      == ToUnsignedLongLong(x)
        sign   == u[1] \div HalfLimb
        biased == (u[1] % HalfLimb) \div 16
        m20    == (u[1] % 16) * Limb + u[2]
        mag    == IF biased = 0 THEN 0
                  ELSE (Pow2(MantTopBits) + m20) \div Pow2(MantTopBits - (biased - ExpBias))
    IN  IF sign = 1 THEN -mag ELSE mag

\* __longlong_as_double: the double whose bit pattern is the long long.
\* The operand is evaluated once, whatever expression it is given as.
longlong_as_double(operand) == CHOOSE d \in {DecodeDouble(x) : x \in {operand}} : TRUE

\* ========================================================================
\* Atomics (atomic_add overloads)
\* ========================================================================
Threads == 1..NThreads

Kinds == {"float", "double", "cuComplex", "cuDoubleComplex"}

IsComplexKind(k) == k \in {"cuComplex", "cuDoubleComplex"}

IsDoubleKind(k) == k \in {"double", "cuDoubleComplex"}

Deltas == {[re |-> -1, im |-> 1], [re |-> 1, im |-> 2]}

InitialValues == {[re |-> 0, im |-> 0], [re |-> -3, im |-> 4]}

ZeroBits == <<0, 0, 0, 0>>

\* (mutant) the imaginary half is added first.
HalfOf_ImagFirst(i) == IF i = 1 THEN "im" ELSE "re"

\* The half of the object the idx-th scalar add of a call works on:
\* the real half first, then the imaginary half sizeof(scalar) bytes on.
HalfOf(i) == IF i = 1 THEN "re" ELSE "im"

\* Number of scalar adds one call makes.
NumScalarAdds(k) == IF IsComplexKind(k) THEN 2 ELSE 1

\* The bytes of a scalar holding the number n, for the overload's scalar type:
\* a real64 is kept as its 64-bit pattern, a real32 as its value.
StoreScalar(k, n) ==
    IF IsDoubleKind(k) THEN ToUnsignedLongLong(double_as_longlong(n)) ELSE n

\* address[0] read as the overload's scalar type.
LoadScalar(k, cell) ==
    IF IsDoubleKind(k) THEN longlong_as_double(ToLongLong(cell)) ELSE cell

\* (mutant) the swap stores whatever the word held.
atomicCAS_Unconditional(word, compare, val) == [ret |-> word, word |-> val]

\* The hardware compare-and-swap on one 64-bit word: the word afterwards and
\* the value returned (the word before).
atomicCAS(word, compare, val) ==
    [ret |-> word, word |-> IF word = compare THEN val ELSE word]

\* The hardware atomicAdd on one scalar: the scalar afterwards.
atomicAdd(k, cell, v) == StoreScalar(k, LoadScalar(k, cell) + v)

\* Whether a scalar add of this overload is a single hardware atomicAdd.
UsesNativeAdd(k, arch) == ~IsDoubleKind(k) \/ arch

\* The operand of the swap: __double_as_longlong(value + __longlong_as_double(assumed)).
CasNewValue(v, a) ==
    ToUnsignedLongLong(double_as_longlong(v + longlong_as_double(ToLongLong(a))))

\* (mutant) a single attempt, never retried.
LoopAgain_Never(a, o) == FALSE

\* The loop condition: while ( assumed != old ).
LoopAgain(a, o) == a # o

\* Where a thread goes after finishing its idx-th scalar add.
AfterScalarAdd(k, i) ==
    IF i < NumScalarAdds(k) THEN [pc |-> "start", idx |-> i + 1]
    ELSE [pc |-> "done", idx |-> i]

AtomicStart ==
    /\ kind \in Kinds
    /\ arch600 \in (IF IsDoubleKind(kind) THEN BOOLEAN ELSE {FALSE})
    /\ v0 \in {v \in InitialValues : IsComplexKind(kind) \/ v.im = 0}
    /\ mem = [re |-> StoreScalar(kind, v0.re), im |-> StoreScalar(kind, v0.im)]
    /\ value \in [Threads -> Deltas]
    /\ pc = [t \in Threads |-> "start"]
    /\ idx = [t \in Threads |-> 1]
    /\ old = [t \in Threads |-> ZeroBits]
    /\ retried = [t \in Threads |-> FALSE]
    /\ seen = <<>>

\* atomicAdd( address, value ): lines 28, 34, 51-52.
NativeAdd(t) ==
    /\ pc[t] = "start"
    /\ UsesNativeAdd(kind, arch600)
    /\ LET h == HalfOf(idx[t])
           n == AfterScalarAdd(kind, idx[t])
       IN  /\ mem' = [mem EXCEPT ![h] = atomicAdd(kind, mem[h], value[t][h])]
           /\ pc' = [pc EXCEPT ![t] = n.pc]
           /\ idx' = [idx EXCEPT ![t] = n.idx]
    /\ UNCHANGED <<kind, arch600, v0, value, old, retried, seen>>

\* unsigned long long old = __double_as_longlong( address[0] ): line 37.
LoadOld(t) ==
    /\ pc[t] = "start"
    /\ ~UsesNativeAdd(kind, arch600)
    /\ old' = [old EXCEPT ![t] =
                  ToUnsignedLongLong(double_as_longlong(LoadScalar(kind, mem[HalfOf(idx[t])])))]
    /\ pc' = [pc EXCEPT ![t] = "loop"]
    /\ UNCHANGED <<kind, arch600, mem, v0, value, idx, retried, seen>>

\* One pass of the do-while body and its test: lines 41-44.  The locals go
\* out of scope when the loop is left; old is kept as ZeroBits then, and
\* assumed, assigned at the top of every pass, lives within the step.
CasAttempt(t) ==
    /\ pc[t] = "loop"
    /\ LET h == HalfOf(idx[t])
           a == old[t]                      \* assumed = old
           r == atomicCAS(mem[h], a, CasNewValue(value[t][h], a))
           n == IF LoopAgain(a, r.ret) THEN [pc |-> "loop", idx |-> idx[t]]
                ELSE AfterScalarAdd(kind, idx[t])
           again == LoopAgain(a, r.ret)
       IN  /\ old' = [old EXCEPT ![t] = IF again THEN r.ret ELSE ZeroBits]
           /\ retried' = [retried EXCEPT ![t] = @ \/ again]
           /\ mem' = [mem EXCEPT ![h] = r.word]
           /\ pc' = [pc EXCEPT ![t] = n.pc]
           /\ idx' = [idx EXCEPT ![t] = n.idx]
    /\ UNCHANGED <<kind, arch600, v0, value, seen>>

\* A concurrent reader loads a complex object, both halves, once.
ReadObject ==
    /\ IsComplexKind(kind)
    /\ seen = <<>>
    /\ seen' = <<[re |-> LoadScalar(kind, mem.re), im |-> LoadScalar(kind, mem.im)]>>
    /\ UNCHANGED <<kind, arch600, mem, v0, value, pc, idx, old, retried>>

\* The atomic_add variables when no atomic_add runs.
AtomicIdle ==
    /\ kind = "float"
    /\ arch600 = FALSE
    /\ v0 = [re |-> 0, im |-> 0]
    /\ mem = [re |-> 0, im |-> 0]
    /\ value = [t \in Threads |-> [re |-> 0, im |-> 0]]
    /\ pc = [t \in Threads |-> "done"]
    /\ idx = [t \in Threads |-> 1]
    /\ old = [t \in Threads |-> ZeroBits]
    /\ retried = [t \in Threads |-> FALSE]
    /\ seen = <<>>

\* ========================================================================
\* atomic_CAS (32-bit and 64-bit overloads)
\* ========================================================================
IntMax == 2147483647

IntMin == -IntMax - 1

\* The int64_t value of an integer n that fits 32 bits (sign-extended).
Int64(n) ==
    <<IF n < 0 THEN -1 ELSE 0, IF n < 0 THEN Limb - 1 ELSE 0, (n \div Limb) % Limb, n % Limb>>

Int64Min == <<-HalfLimb, 0, 0, 0>>

Int64Max == <<HalfLimb - 1, Limb - 1, Limb - 1, Limb - 1>>

\* Arguments and contents tried for each overload.
CasValues(w) ==
    IF w = 64 THEN {Int64(-1), Int64(0), Int64(1), Int64(-Limb - 1), Int64Min, Int64Max}
    ELSE {-1, 0, 1, IntMin, IntMax}

\* The object at `address`, as the overload's integer type sees it.
CasLoad(w, word) == IF w = 64 THEN ToLongLong(word) ELSE word

\* The bytes of the object holding the integer x.
CasStore(w, x) == IF w = 64 THEN ToUnsignedLongLong(x) ELSE x

\* (mutant) the casts go through a 32-bit unsigned type.
atomic_CAS64_Narrowed(word, compare, val) ==
    LET narrow(x) == <<0, 0, x[3], x[4]>>
        r == atomicCAS(word, narrow(compare), narrow(val))
    IN  [ret |-> ToLongLong(r.ret), word |-> r.word]

\* atomic_CAS(int64_t*, int64_t, int64_t): line 63.
atomic_CAS64(word, compare, val) ==
    LET r == atomicCAS(word, ToUnsignedLongLong(compare), ToUnsignedLongLong(val))
    IN  [ret |-> ToLongLong(r.ret), word |-> r.word]

\* atomic_CAS(int*, int, int): line 68.
atomic_CAS32(word, compare, val) == atomicCAS(word, compare, val)

CasStart ==
    /\ casWidth \in {32, 64}
    /\ casMem \in {CasStore(casWidth, x) : x \in CasValues(casWidth)}
    /\ lastCas = [thread |-> 0, compare |-> CasLoad(casWidth, casMem),
                  val |-> CasLoad(casWidth, casMem), ret |-> CasLoad(casWidth, casMem)]

CasIdle ==
    /\ casWidth = 32
    /\ casMem = 0
    /\ lastCas = [thread |-> 0, compare |-> 0, val |-> 0, ret |-> 0]

\* Thread t calls the 64-bit overload.
CallCAS64(t, compare, val) ==
    /\ casWidth = 64
    /\ LET r == atomic_CAS64(casMem, compare, val)
       IN  /\ casMem' = r.word
           /\ lastCas' = [thread |-> t, compare |-> compare, val |-> val, ret |-> r.ret]
    /\ UNCHANGED casWidth

\* Thread t calls the 32-bit overload.
CallCAS32(t, compare, val) ==
    /\ casWidth = 32
    /\ LET r == atomic_CAS32(casMem, compare, val)
       IN  /\ casMem' = r.word
           /\ lastCas' = [thread |-> t, compare |-> compare, val |-> val, ret |-> r.ret]
    /\ UNCHANGED casWidth

\* ========================================================================
\* Warp: lanes and participation masks
\* ========================================================================
WarpSize == 32

Lanes == 0..(WarpSize - 1)

\* #define DEFAULT_MASK 0xffffffff, as the set of its set bits.
DEFAULT_MASK == Lanes

\* Lane sets used as masks, active sets and predicate supports.
LaneSets ==
    { Lanes, 0..15, 16..31, {5}, {0, 31},
      {l \in Lanes : l % 2 = 1}, {l \in Lanes : l % 3 = 0} }

\* ========================================================================
\* Warp vote: ballot
\* ========================================================================
\* __ballot_sync(mask, p): the lanes of mask executing the call whose
\* predicate is non-zero.
ballot_sync(mask, p, active) == {i \in active : i \in mask /\ p[i] # 0}

\* __ballot(p): the lanes executing the call whose predicate is non-zero.
ballot_legacy(p, active) == {i \in active : p[i] # 0}

\* (mutant) the mask is dropped on every build.
ballot_IgnoringMask(v9, p, mask, active) == ballot_legacy(p, active)

\* ballot(p, mask): lines 261-268.
ballot(v9, p, mask, active) ==
    IF v9 THEN ballot_sync(mask, p, active) ELSE ballot_legacy(p, active)

\* Values a predicate takes on the lanes where it is non-zero.
TrueValues == {1, -1, 2}

\* The lanes that pass voteMask are exactly the lanes of voteMask; other lanes
\* may execute the same call with a mask of their own.
VoteStart ==
    /\ voteMask \in LaneSets
    /\ voteActive \in {a \in LaneSets : voteMask \subseteq a}
    /\ \E S \in LaneSets \cup {{}}, v \in TrueValues :
          voteP = [l \in Lanes |-> IF l \in S THEN v ELSE 0]
    /\ voteOut = <<>>

VoteIdle ==
    /\ voteMask = DEFAULT_MASK
    /\ voteActive = Lanes
    /\ voteP = [l \in Lanes |-> 0]
    /\ voteOut = <<>>

\* The group executes ballot(p, mask).
Ballot ==
    /\ voteOut = <<>>
    /\ voteOut' = <<ballot(cudart9, voteP, voteMask, voteActive)>>
    /\ UNCHANGED <<voteP, voteMask, voteActive>>

\* ========================================================================
\* Warp barrier: syncwarp
\* ========================================================================
NSyncLanes == 3

SyncLanes == 0..(NSyncLanes - 1)

\* (mutant) one arrived lane of the mask is enough to resume.
syncwarp_sync_released_Any(mask, pcs) == \E m \in mask : pcs[m] \in {"inside", "after"}

\* __syncwarp(mask) lets a caller resume once every lane named in mask has
\* executed it.
syncwarp_sync_released(mask, pcs) == \A m \in mask : pcs[m] \in {"inside", "after"}

\* (mutant) the call is a no-op on every build.
syncwarp_NoOp(v9, mask, pcs) == TRUE

\* syncwarp(mask), lines 297-304: __syncwarp(mask), or a plain return.
syncwarp_released(v9, mask, pcs) ==
    IF v9 THEN syncwarp_sync_released(mask, pcs) ELSE TRUE

\* The callers are lanes of the mask; a lane of the mask outside syncComing
\* is alive but never reaches the call.
SyncStart ==
    /\ syncMask \in (SUBSET SyncLanes) \ {{}}
    /\ syncComing \in (SUBSET syncMask) \ {{}}
    /\ syncPc = [l \in SyncLanes |-> "before"]

SyncIdle ==
    /\ syncMask = SyncLanes
    /\ syncComing = SyncLanes
    /\ syncPc = [l \in SyncLanes |-> "after"]

\* Lane l reaches its syncwarp(mask) call.
SyncCall(l) ==
    /\ l \in syncComing
    /\ syncPc[l] = "before"
    /\ syncPc' = [syncPc EXCEPT ![l] = "inside"]
    /\ UNCHANGED <<syncMask, syncComing>>

\* Lane l proceeds past the call.
SyncReturn(l) ==
    /\ syncPc[l] = "inside"
    /\ syncwarp_released(cudart9, syncMask, syncPc)
    /\ syncPc' = [syncPc EXCEPT ![l] = "after"]
    /\ UNCHANGED <<syncMask, syncComing>>

\* ========================================================================
\* Shuffle
\* ========================================================================
RECURSIVE BitAnd(_, _)
BitAnd(a, b) ==
    IF a = 0 \/ b = 0 THEN 0 ELSE (a % 2) * (b % 2) + 2 * BitAnd(a \div 2, b \div 2)

RECURSIVE BitXor(_, _)
BitXor(a, b) ==
    IF a = 0 /\ b = 0 THEN 0 ELSE ((a + b) % 2) + 2 * BitXor(a \div 2, b \div 2)

\* (int) m for an unsigned mask m, and (unsigned) n for an int n.
RECURSIVE SumPow2(_)
SumPow2(S) ==
    IF S = {} THEN 0
    ELSE LET i == CHOOSE x \in S : TRUE IN Pow2(i) + SumPow2(S \ {i})

MaskToInt(m) ==
    IF 31 \in m THEN -SumPow2((0..30) \ m) - 1 ELSE SumPow2(m)

IntToMask(n) ==
    LET m   == IF n >= 0 THEN n ELSE -n - 1
        low == {i \in 0..30 : (m \div Pow2(i)) % 2 = 1}
    IN  IF n >= 0 THEN low ELSE (0..31) \ low

\* The widths the shuffle is documented for.
ValidWidth(w) == w \in {1, 2, 4, 8, 16, 32}

\* The lane a shuffle reads from.  The intrinsic hands the instruction the
\* operand ((warpSize - width) << 8) | clamp, of which the instruction takes
\* five bits as the segment mask: the bits of the lane index that select the
\* sub-group.  The lane argument contributes its low five bits.  A lane
\* whose source falls outside its sub-group reads its own value.
SegMask(w) == (WarpSize - w) % WarpSize

MinLane(l, w) == BitAnd(l, SegMask(w))

MaxLane(l, w) == MinLane(l, w) + BitAnd(WarpSize - 1, (WarpSize - 1) - SegMask(w))

SelectLane(mode, l, b, w) ==
    LET bval == b % WarpSize
    IN  CASE mode = "idx"  -> MinLane(l, w) + BitAnd(bval, (WarpSize - 1) - SegMask(w))
          [] mode = "xor"  -> LET j == BitXor(l, bval) IN IF j <= MaxLane(l, w) THEN j ELSE l
          [] mode = "down" -> LET j == l + bval IN IF j <= MaxLane(l, w) THEN j ELSE l
          [] mode = "up"   -> LET j == l - bval IN IF j >= MinLane(l, w) THEN j ELSE l

ShflModes == {"idx", "xor", "down", "up"}

\* The selection tabulated by segment mask, lane operand and lane.
SourceLanes ==
    [mode \in ShflModes |-> [s \in Lanes |-> [bval \in Lanes |-> [l \in Lanes |->
        SelectLane(mode, l, bval, WarpSize - s)]]]]

SourceLane(mode, l, b, w) == SourceLanes[mode][SegMask(w)][b % WarpSize][l]

\* What the hardware leaves open, resolved one way for a whole collective:
\*   "own"       a lane reading a lane that does not execute keeps its value;
\*   "register"  such a lane is handed what the other lane's register holds;
\*   "none"      as "own", and a call the documentation leaves undefined
\*               altogether (width or mask) exchanges nothing.
UndefinedChoices == {"own", "register", "none"}

\* The call is one the documentation covers: the width is a power of two up
\* to the warp size and the mask (if any) names exactly the executing lanes.
ValidCall(hasMask, mask, width, active) ==
    /\ ValidWidth(width)
    /\ hasMask => mask = active

\* What lane l holds after the shuffle under choice c.
ShuffleLane(c, valid, mode, var, b, width, active, l) ==
    LET src == SourceLane(mode, l, b[l], width)
    IN  IF l \notin active \/ (~valid /\ c = "none") THEN var[l]
        ELSE IF src \in active \/ c = "register" THEN var[src]
        ELSE var[l]

\* One hardware shuffle of 32-bit (or natively 64-bit) values executed by the
\* lanes of `active`: __shfl*_sync(mask, var, b, width) when hasMask, and
\* __shfl*(var, b, width) otherwise.  Every lane whose source lane executes
\* receives that lane's value.  `outs` gives the result under each way of
\* resolving what is left open, `val` the one in which a lane without an
\* executing source keeps its value; `defined` says nothing was left open.
Shuffle(mode, hasMask, mask, var, b, width, active) ==
    LET valid == ValidCall(hasMask, mask, width, active)
    IN  [defined |-> /\ valid
                     /\ \A l \in active : SourceLane(mode, l, b[l], width) \in active,
         val     |-> [l \in Lanes |->
                         ShuffleLane("own", valid, mode, var, b, width, active, l)],
         outs    |-> [c \in UndefinedChoices |-> [l \in Lanes |->
                         ShuffleLane(c, valid, mode, var, b, width, active, l)]],
         calls   |-> <<[hasMask |-> hasMask, mask |-> IF hasMask THEN mask ELSE {},
                        width |-> width]>>]

\* The explicit-mask primitive on a new build, the implicit one on an old.
ShuffleByBuild(v9, mode, mask, var, b, width, active) ==
    Shuffle(mode, v9, mask, var, b, width, active)

\* __double2hiint, __double2loint, __hiloint2double on a real64 pattern
\* (hiloint2double_LoHi is a mutant: the halves change places).
SignedInt32(a, b) == (IF a >= HalfLimb THEN a - Limb ELSE a) * Limb + b

double2hiint(d) == SignedInt32(d[1], d[2])

double2loint(d) == SignedInt32(d[3], d[4])

hiloint2double_LoHi(hi, lo) ==
    <<(lo \div Limb) % Limb, lo % Limb, (hi \div Limb) % Limb, hi % Limb>>

hiloint2double(hi, lo) ==
    <<(hi \div Limb) % Limb, hi % Limb, (lo \div Limb) % Limb, lo % Limb>>

\* (mutant) the lane and bound arguments change places.
shfl_int_SwappedArgs(v9, r, lane, bound, mask, active) ==
    ShuffleByBuild(v9, "idx", mask, r, [l \in Lanes |-> bound], lane[0], active)

\* shfl(int): lines 309-316.
shfl_int(v9, r, lane, bound, mask, active) ==
    ShuffleByBuild(v9, "idx", mask, r, lane, bound, active)

\* shfl(float): lines 319-326.
shfl_float(v9, r, lane, bound, mask, active) ==
    ShuffleByBuild(v9, "idx", mask, r, lane, bound, active)

\* shfl(double): lines 328-337.
shfl_double(v9, r, lane, bound, mask, active) ==
    IF v9 THEN Shuffle("idx", TRUE, mask, r, lane, bound, active)
    ELSE LET hi == Shuffle("idx", FALSE, mask, [l \in Lanes |-> double2hiint(r[l])],
                           lane, bound, active)
             lo == Shuffle("idx", FALSE, mask, [l \in Lanes |-> double2loint(r[l])],
                           lane, bound, active)
         IN  [defined |-> hi.defined /\ lo.defined,
              val     |-> [l \in Lanes |-> hiloint2double(hi.val[l], lo.val[l])],
              outs    |-> [c \in UndefinedChoices |-> [l \in Lanes |->
                              hiloint2double(hi.outs[c][l], lo.outs[c][l])]],
              calls   |-> hi.calls \o lo.calls]

\* A complex result from the results of the two component shuffles.
MakeComplex(re, im) ==
    [defined |-> re.defined /\ im.defined,
     val     |-> [l \in Lanes |-> [re |-> re.val[l], im |-> im.val[l]]],
     outs    |-> [c \in UndefinedChoices |-> [l \in Lanes |->
                     [re |-> re.outs[c][l], im |-> im.outs[c][l]]]],
     calls   |-> re.calls \o im.calls]

Real(r) == [l \in Lanes |-> r[l].re]

Imag(r) == [l \in Lanes |-> r[l].im]

\* shfl(cuComplex): lines 339-350.
shfl_cuComplex(v9, r, lane, bound, mask, active) ==
    MakeComplex(ShuffleByBuild(v9, "idx", mask, Real(r), lane, bound, active),
                ShuffleByBuild(v9, "idx", mask, Imag(r), lane, bound, active))

\* shfl(cuDoubleComplex): lines 352-357.  The scalar overload is called as
\* shfl( x, lane, mask, bound ): its int bound receives the mask and its
\* unsigned mask receives the bound.
shfl_cuDoubleComplex(v9, r, lane, bound, mask, active) ==
    MakeComplex(shfl_double(v9, Real(r), lane, MaskToInt(mask), IntToMask(bound), active),
                shfl_double(v9, Imag(r), lane, MaskToInt(mask), IntToMask(bound), active))

\* The path of the real64 overloads without a 64-bit shuffle: the two 32-bit
\* halves are shuffled one after the other and put together again.
HiLoShuffle(mode, r, b, bound, active) ==
    LET hi == Shuffle(mode, FALSE, {}, [l \in Lanes |-> double2hiint(r[l])], b, bound, active)
        lo == Shuffle(mode, FALSE, {}, [l \in Lanes |-> double2loint(r[l])], b, bound, active)
    IN  [defined |-> hi.defined /\ lo.defined,
         val     |-> [l \in Lanes |-> hiloint2double(hi.val[l], lo.val[l])],
         outs    |-> [c \in UndefinedChoices |-> [l \in Lanes |->
                         hiloint2double(hi.outs[c][l], lo.outs[c][l])]],
         calls   |-> hi.calls \o lo.calls]

\* (mutant) the butterfly exchange reads by absolute lane index.
shfl_xor_int_Indexed(v9, r, lane_mask, bound, mask, active) ==
    ShuffleByBuild(v9, "idx", mask, r, lane_mask, bound, active)

\* shfl_xor(int): lines 359-366.
shfl_xor_int(v9, r, lane_mask, bound, mask, active) ==
    ShuffleByBuild(v9, "xor", mask, r, lane_mask, bound, active)

\* shfl_xor(float): lines 369-376.
shfl_xor_float(v9, r, lane_mask, bound, mask, active) ==
    ShuffleByBuild(v9, "xor", mask, r, lane_mask, bound, active)

\* shfl_xor(double): lines 378-387.
shfl_xor_double(v9, r, lane_mask, bound, mask, active) ==
    IF v9 THEN Shuffle("xor", TRUE, mask, r, lane_mask, bound, active)
    ELSE HiLoShuffle("xor", r, lane_mask, bound, active)

\* shfl_xor(cuComplex): lines 389-400.
shfl_xor_cuComplex(v9, r, lane_mask, bound, mask, active) ==
    MakeComplex(ShuffleByBuild(v9, "xor", mask, Real(r), lane_mask, bound, active),
                ShuffleByBuild(v9, "xor", mask, Imag(r), lane_mask, bound, active))

\* shfl_xor(cuDoubleComplex): lines 402-407.  The scalar overload is called
\* as shfl_xor( x, lane_mask, mask, bound ).
shfl_xor_cuDoubleComplex(v9, r, lane_mask, bound, mask, active) ==
    MakeComplex(shfl_xor_double(v9, Real(r), lane_mask, MaskToInt(mask), IntToMask(bound), active),
                shfl_xor_double(v9, Imag(r), lane_mask, MaskToInt(mask), IntToMask(bound), active))

\* shfl_down(int): lines 409-416.
shfl_down_int(v9, r, offset, bound, mask, active) ==
    ShuffleByBuild(v9, "down", mask, r, offset, bound, active)

\* shfl_down(float): lines 418-425.
shfl_down_float(v9, r, offset, bound, mask, active) ==
    ShuffleByBuild(v9, "down", mask, r, offset, bound, active)

\* shfl_down(double): lines 427-436.
shfl_down_double(v9, r, offset, bound, mask, active) ==
    IF v9 THEN Shuffle("down", TRUE, mask, r, offset, bound, active)
    ELSE HiLoShuffle("down", r, offset, bound, active)

\* shfl_down(cuComplex): lines 438-449.
shfl_down_cuComplex(v9, r, lane, bound, mask, active) ==
    MakeComplex(ShuffleByBuild(v9, "down", mask, Real(r), lane, bound, active),
                ShuffleByBuild(v9, "down", mask, Imag(r), lane, bound, active))

\* shfl_down(cuDoubleComplex): lines 451-456.  The scalar overload is called
\* as shfl_down( x, lane, bound ): its mask takes the default.
shfl_down_cuDoubleComplex(v9, r, lane, bound, mask, active) ==
    MakeComplex(shfl_down_double(v9, Real(r), lane, bound, DEFAULT_MASK, active),
                shfl_down_double(v9, Imag(r), lane, bound, DEFAULT_MASK, active))

\* shfl_up(int): lines 459-466.
shfl_up_int(v9, r, offset, bound, mask, active) ==
    ShuffleByBuild(v9, "up", mask, r, offset, bound, active)

\* shfl_up(float): lines 468-475.
shfl_up_float(v9, r, offset, bound, mask, active) ==
    ShuffleByBuild(v9, "up", mask, r, offset, bound, active)

\* shfl_up(double): lines 477-486.
shfl_up_double(v9, r, offset, bound, mask, active) ==
    IF v9 THEN Shuffle("up", TRUE, mask, r, offset, bound, active)
    ELSE HiLoShuffle("up", r, offset, bound, active)

\* shfl_up(cuComplex): lines 488-499.
shfl_up_cuComplex(v9, r, lane, bound, mask, active) ==
    MakeComplex(ShuffleByBuild(v9, "up", mask, Real(r), lane, bound, active),
                ShuffleByBuild(v9, "up", mask, Imag(r), lane, bound, active))

\* shfl_up(cuDoubleComplex): lines 501-506.  The scalar overload is called
\* as shfl_up( x, lane, bound ): its mask takes the default.
shfl_up_cuDoubleComplex(v9, r, lane, bound, mask, active) ==
    MakeComplex(shfl_up_double(v9, Real(r), lane, bound, DEFAULT_MASK, active),
                shfl_up_double(v9, Imag(r), lane, bound, DEFAULT_MASK, active))

ShflTypes == {"int", "float", "double", "cuComplex", "cuDoubleComplex"}

ScalarTypes == {"int", "float", "double"}

shfl(type, v9, r, lane, bound, mask, active) ==
    CASE type = "int"             -> shfl_int(v9, r, lane, bound, mask, active)
      [] type = "float"           -> shfl_float(v9, r, lane, bound, mask, active)
      [] type = "double"          -> shfl_double(v9, r, lane, bound, mask, active)
      [] type = "cuComplex"       -> shfl_cuComplex(v9, r, lane, bound, mask, active)
      [] type = "cuDoubleComplex" -> shfl_cuDoubleComplex(v9, r, lane, bound, mask, active)

shfl_xor(type, v9, r, lane_mask, bound, mask, active) ==
    CASE type = "int"             -> shfl_xor_int(v9, r, lane_mask, bound, mask, active)
      [] type = "float"           -> shfl_xor_float(v9, r, lane_mask, bound, mask, active)
      [] type = "double"          -> shfl_xor_double(v9, r, lane_mask, bound, mask, active)
      [] type = "cuComplex"       -> shfl_xor_cuComplex(v9, r, lane_mask, bound, mask, active)
      [] type = "cuDoubleComplex" -> shfl_xor_cuDoubleComplex(v9, r, lane_mask, bound, mask, active)

shfl_down(type, v9, r, offset, bound, mask, active) ==
    CASE type = "int"             -> shfl_down_int(v9, r, offset, bound, mask, active)
      [] type = "float"           -> shfl_down_float(v9, r, offset, bound, mask, active)
      [] type = "double"          -> shfl_down_double(v9, r, offset, bound, mask, active)
      [] type = "cuComplex"       -> shfl_down_cuComplex(v9, r, offset, bound, mask, active)
      [] type = "cuDoubleComplex" -> shfl_down_cuDoubleComplex(v9, r, offset, bound, mask, active)

shfl_up(type, v9, r, offset, bound, mask, active) ==
    CASE type = "int"             -> shfl_up_int(v9, r, offset, bound, mask, active)
      [] type = "float"           -> shfl_up_float(v9, r, offset, bound, mask, active)
      [] type = "double"          -> shfl_up_double(v9, r, offset, bound, mask, active)
      [] type = "cuComplex"       -> shfl_up_cuComplex(v9, r, offset, bound, mask, active)
      [] type = "cuDoubleComplex" -> shfl_up_cuDoubleComplex(v9, r, offset, bound, mask, active)

\* The collective the warp calls.
ShflCall(mode, type, v9, r, b, bound, mask, active) ==
    CASE mode = "idx"  -> shfl(type, v9, r, b, bound, mask, active)
      [] mode = "xor"  -> shfl_xor(type, v9, r, b, bound, mask, active)
      [] mode = "down" -> shfl_down(type, v9, r, b, bound, mask, active)
      [] mode = "up"   -> shfl_up(type, v9, r, b, bound, mask, active)

\* Per-lane values tried, by scalar type: a real64 is its 64-bit pattern.
ScalarInputs(scalar) ==
    IF scalar = "double"
    THEN { [l \in Lanes |-> <<l, 7, 3 * l, Limb - 1 - l>>],
           [l \in Lanes |-> <<Limb - 1 - l, l, Limb - 1 - 2 * l, 2 * l + 1>>] }
    ELSE { [l \in Lanes |-> 100 + l], [l \in Lanes |-> 7 - 3 * l] }

ShflInputs(type) ==
    CASE type \in {"int", "float", "double"} -> ScalarInputs(type)
      [] type = "cuComplex" ->
            { [l \in Lanes |-> [re |-> a[l], im |-> b[l]]] :
                  a \in ScalarInputs("float"), b \in ScalarInputs("float") }
      [] type = "cuDoubleComplex" ->
            { [l \in Lanes |-> [re |-> a[l], im |-> b[l]]] :
                  a \in ScalarInputs("double"), b \in ScalarInputs("double") }

\* lane_id(): line 106.
lane_id == [l \in Lanes |-> l]

\* Lane arguments tried: the same lane for all, or each lane its own index.
LaneArgs == {[l \in Lanes |-> k] : k \in {0, 5, 17, 31, 37, -3}} \cup {lane_id}

ShflStart ==
    /\ shMode \in ShflModes
    /\ shType \in ShflTypes
    /\ shIn \in ShflInputs(shType)
    /\ shLane \in LaneArgs
    /\ shBound \in {1, 2, 4, 8, 16, WarpSize}
    /\ shActive \in {Lanes, 0..15, 16..31}
    /\ shMask = shActive
    /\ shOut = <<>>
    /\ shCalls = <<>>

ShflIdle ==
    /\ shMode = "idx"
    /\ shType = "int"
    /\ shIn = [l \in Lanes |-> 0]
    /\ shLane = lane_id
    /\ shBound = WarpSize
    /\ shActive = Lanes
    /\ shMask = DEFAULT_MASK
    /\ shOut = <<>>
    /\ shCalls = <<>>

\* The lanes execute shfl / shfl_xor / shfl_down / shfl_up ( r, lane, bound, mask ).
Shfl ==
    /\ shOut = <<>>
    /\ LET res == ShflCall(shMode, shType, cudart9, shIn, shLane, shBound, shMask, shActive)
       IN  /\ shCalls' = res.calls
           /\ \E c \in UndefinedChoices : shOut' = <<res.outs[c]>>
    /\ UNCHANGED <<shMode, shType, shIn, shLane, shBound, shMask, shActive>>

\* ========================================================================
\* Warp reduction
\* ========================================================================
\* Add::eval: line 515.
Add_eval(x, y) == x + y

\* The group sizes with a Warp_reduce specialization: lines 564-598.
LinearSizes == {3, 4, 5, 6, 7, 9, 10, 11, 12, 13, 14, 15}

\* (mutant) no specialization: every size takes the primary template.
Warp_reduce_PrimaryOnly(n) == "Warp_reduce_pow2"

\* The strategy Warp_reduce<N> derives from: lines 561-598.
Warp_reduce(n) == IF n \in LinearSizes THEN "Warp_reduce_linear" ELSE "Warp_reduce_pow2"

\* The strategy whose execute() runs.
Strategy(entry, n) == IF entry = "Warp_reduce" THEN Warp_reduce(n) ELSE entry

\* (mutant) the butterfly stops one step early.
Pow2Continue_Strict(m, n) == m > n

\* for ( mask = WarpSize / 2 ; mask >= NUM_THREADS_PER_ITEM ; mask >>= 1 ): line 526.
Pow2Continue(m, n) == m >= n

\* (mutant) the linear loop runs while i <= NUM_STEPS.
LinearContinue_Inclusive(i, n) == i <= WarpSize \div n

\* for ( i = 1 ; i < NUM_STEPS ; ++i ), NUM_STEPS = WarpSize / N: lines 541-545.
LinearContinue(i, n) == i < WarpSize \div n

\* First value of the loop variable, and whether the loop body runs.
LoopStart(strategy) == IF strategy = "Warp_reduce_pow2" THEN WarpSize \div 2 ELSE 1

LoopContinue(strategy, i, n) ==
    IF strategy = "Warp_reduce_pow2" THEN Pow2Continue(i, n) ELSE LinearContinue(i, n)

\* (mutant) the butterfly combines with the lane `mask` above, not the XOR partner.
Pow2Body_ShflDown(v9, x, m) ==
    LET y == shfl_down_int(v9, x, [l \in Lanes |-> m], WarpSize, DEFAULT_MASK, Lanes).val
    IN  [l \in Lanes |-> Add_eval(x[l], y[l])]

\* x = Operator::eval( x, shfl_xor(x, mask) ): line 528.
Pow2Body(v9, x, m) ==
    LET y == shfl_xor_int(v9, x, [l \in Lanes |-> m], WarpSize, DEFAULT_MASK, Lanes).val
    IN  [l \in Lanes |-> Add_eval(x[l], y[l])]

\* (mutant) every lane combines what it receives.
LinearBody_AllLanes(v9, x, i, n) ==
    LET y == shfl_down_int(v9, x, [l \in Lanes |-> i * n], WarpSize, DEFAULT_MASK, Lanes).val
    IN  [l \in Lanes |-> Add_eval(x[l], y[l])]

\* y = shfl_down( x, i * N ); if ( my_lane_id < N ) x = eval( x, y ): lines 547-552.
LinearBody(v9, x, i, n) ==
    LET y == shfl_down_int(v9, x, [l \in Lanes |-> i * n], WarpSize, DEFAULT_MASK, Lanes).val
    IN  [l \in Lanes |-> IF lane_id[l] < n THEN Add_eval(x[l], y[l]) ELSE x[l]]

\* Warp_reduce_linear::execute from pass i on: lines 545-555.
RECURSIVE Warp_reduce_linear_execute(_, _, _, _)
Warp_reduce_linear_execute(v9, x, i, n) ==
    IF LinearContinue(i, n)
    THEN Warp_reduce_linear_execute(v9, LinearBody(v9, x, i, n), i + 1, n)
    ELSE x

ReduceEntries == {"Warp_reduce", "Warp_reduce_pow2", "Warp_reduce_linear"}

\* Group sizes tried for each entry point.
ReduceSizes(entry) ==
    CASE entry = "Warp_reduce"        -> (1..16) \cup {WarpSize}
      [] entry = "Warp_reduce_pow2"   -> {1, 2, 4, 8, 16, WarpSize}
      [] entry = "Warp_reduce_linear" -> 1..WarpSize

\* Lane values tried: all ones, 1..N repeating, and the lane index plus one.
ReduceInputs(n) ==
    { [l \in Lanes |-> 1], [l \in Lanes |-> (l % n) + 1], [l \in Lanes |-> l + 1] }

ReduceStart ==
    /\ rdEntry \in ReduceEntries
    /\ rdN \in ReduceSizes(rdEntry)
    /\ rdIn \in ReduceInputs(rdN)
    /\ rdX = rdIn
    /\ rdI = LoopStart(Strategy(rdEntry, rdN))
    /\ rdSteps = 0
    /\ rdPc = "loop"

ReduceIdle ==
    /\ rdEntry = "Warp_reduce"
    /\ rdN = WarpSize
    /\ rdIn = [l \in Lanes |-> 0]
    /\ rdX = [l \in Lanes |-> 0]
    /\ rdI = 0
    /\ rdSteps = 0
    /\ rdPc = "done"

\* One pass of the loop of Warp_reduce_pow2::execute.
Pow2Step ==
    /\ rdPc = "loop"
    /\ Strategy(rdEntry, rdN) = "Warp_reduce_pow2"
    /\ Pow2Continue(rdI, rdN)
    /\ rdX' = Pow2Body(cudart9, rdX, rdI)
    /\ rdI' = rdI \div 2
    /\ rdSteps' = rdSteps + 1
    /\ UNCHANGED <<rdEntry, rdN, rdIn, rdPc>>

\* One pass of the loop of Warp_reduce_linear::execute.
LinearStep ==
    /\ rdPc = "loop"
    /\ Strategy(rdEntry, rdN) = "Warp_reduce_linear"
    /\ LinearContinue(rdI, rdN)
    /\ rdX' = LinearBody(cudart9, rdX, rdI, rdN)
    /\ rdI' = rdI + 1
    /\ rdSteps' = rdSteps + 1
    /\ UNCHANGED <<rdEntry, rdN, rdIn, rdPc>>

\* The loop test fails: return x.
ReduceReturn ==
    /\ rdPc = "loop"
    /\ ~LoopContinue(Strategy(rdEntry, rdN), rdI, rdN)
    /\ rdPc' = "done"
    /\ UNCHANGED <<rdEntry, rdN, rdIn, rdX, rdI, rdSteps>>

\* ========================================================================
\* gaussianElimination4by4 (gaussian_elimination.h)
\* ========================================================================
BSIZE == 4

Idx == 0..(BSIZE - 1)

\* a / c goes without rounding when c is non-zero and divides a.
Exact(a, c) == c # 0 /\ a % Abs(c) = 0

\* a / c on operands for which it is exact; the systems tried are those on
\* which every division of the run is (an inexact one yields 0 here and
\* marks the run).
Quot(a, c) == IF Exact(a, c) THEN a \div c ELSE 0

\* The blocks of the function act on [E, b, x] and record in `exact` whether
\* every division so far was exact.

\* j=0: lines 56-74.  Lines 73 and 74 read E[3][1], which line 72 has just
\* overwritten.
EliminateJ0(s) ==
    LET E     == s.E
        b     == s.b
        pivot == E[0][0]
        r1    == Quot(E[1][0], pivot)
        r2    == Quot(E[2][0], pivot)
        r3    == Quot(E[3][0], pivot)
        e31   == E[3][1] - E[0][1] * r3
    IN  [E |-> [E EXCEPT ![1] = [@ EXCEPT ![1] = E[1][1] - E[0][1] * r1,
                                          ![2] = E[1][2] - E[0][2] * r1,
                                          ![3] = E[1][3] - E[0][3] * r1],
                         ![2] = [@ EXCEPT ![1] = E[2][1] - E[0][1] * r2,
                                          ![2] = E[2][2] - E[0][2] * r2,
                                          ![3] = E[2][3] - E[0][3] * r2],
                         ![3] = [@ EXCEPT ![1] = e31,
                                          ![2] = e31 - E[0][2] * r3,
                                          ![3] = e31 - E[0][3] * r3]],
         b |-> [b EXCEPT ![1] = b[1] - b[0] * r1,
                         ![2] = b[2] - b[0] * r2,
                         ![3] = b[3] - b[0] * r3],
         x |-> s.x,
         exact |-> /\ s.exact
                   /\ Exact(E[1][0], pivot) /\ Exact(E[2][0], pivot) /\ Exact(E[3][0], pivot)]

\* j=1: lines 76-86.
EliminateJ1(s) ==
    LET E     == s.E
        b     == s.b
        pivot == E[1][1]
        r2    == Quot(E[2][1], pivot)
        r3    == Quot(E[3][1], pivot)
    IN  [E |-> [E EXCEPT ![2] = [@ EXCEPT ![2] = E[2][2] - E[1][2] * r2,
                                          ![3] = E[2][3] - E[1][3] * r2],
                         ![3] = [@ EXCEPT ![2] = E[3][2] - E[1][2] * r3,
                                          ![3] = E[3][3] - E[1][3] * r3]],
         b |-> [b EXCEPT ![2] = b[2] - b[1] * r2,
                         ![3] = b[3] - b[1] * r3],
         x |-> s.x,
         exact |-> s.exact /\ Exact(E[2][1], pivot) /\ Exact(E[3][1], pivot)]

\* j=2: lines 88-92.
EliminateJ2(s) ==
    LET E     == s.E
        b     == s.b
        pivot == E[2][2]
        r3    == Quot(E[3][2], pivot)
    IN  [E |-> [E EXCEPT ![3] = [@ EXCEPT ![3] = E[3][3] - E[2][3] * r3]],
         b |-> [b EXCEPT ![3] = b[3] - b[2] * r3],
         x |-> s.x,
         exact |-> s.exact /\ Exact(E[3][2], pivot)]

\* back substitution: lines 94-104.
BackSubstitution(s) ==
    LET E  == s.E
        b  == s.b
        x3 == Quot(b[3], E[3][3])
        n2 == b[2] - E[2][3] * x3
        x2 == Quot(n2, E[2][2])
        n1 == b[1] - (E[1][2] * x2 + E[1][3] * x3)
        x1 == Quot(n1, E[1][1])
        n0 == b[0] - (E[0][1] * x1 + E[0][2] * x2 + E[0][3] * x3)
        x0 == Quot(n0, E[0][0])
    IN  [E |-> E,
         b |-> b,
         x |-> [i \in Idx |-> CASE i = 0 -> x0 [] i = 1 -> x1 [] i = 2 -> x2 [] i = 3 -> x3],
         exact |-> /\ s.exact
                   /\ Exact(b[3], E[3][3]) /\ Exact(n2, E[2][2])
                   /\ Exact(n1, E[1][1]) /\ Exact(n0, E[0][0])]

\* The whole function on (E, b).
gaussianElimination4by4(E, b) ==
    BackSubstitution(EliminateJ2(EliminateJ1(EliminateJ0(
        [E |-> E, b |-> b, x |-> [i \in Idx |-> 0], exact |-> TRUE]))))

\* A row or vector of four as a function on 0..3.
Vec(a, b, c, d) == [i \in Idx |-> CASE i = 0 -> a [] i = 1 -> b [] i = 2 -> c [] i = 3 -> d]

\* Rows and right-hand sides the systems tried are built from.
Rows0 == {Vec(1, 0, 0, 0), Vec(1, 1, 0, 1), Vec(2, 0, 2, 0)}

Rows1 == {Vec(0, 1, 0, 0), Vec(1, 2, 1, 0)}

Rows2 == {Vec(0, 0, 1, 0), Vec(0, 1, 2, 1)}

Rows3 == {Vec(0, 1, 0, 1), Vec(0, 0, 0, 1), Vec(1, 1, 1, 2), Vec(0, 2, 1, 1)}

RightHandSides == {Vec(1, 2, 3, 4), Vec(0, 1, 0, 2), Vec(2, 2, 2, 2)}

Matrices == {Vec(r0, r1, r2, r3) : r0 \in Rows0, r1 \in Rows1, r2 \in Rows2, r3 \in Rows3}

GaussStart ==
    /\ geE0 \in Matrices
    /\ geB0 \in RightHandSides
    /\ gaussianElimination4by4(geE0, geB0).exact
    /\ geE = geE0
    /\ geB = geB0
    /\ geX = Vec(0, 0, 0, 0)
    /\ gePc = "j0"

GaussIdle ==
    /\ geE0 = Vec(Vec(1, 0, 0, 0), Vec(0, 1, 0, 0), Vec(0, 0, 1, 0), Vec(0, 0, 0, 1))
    /\ geB0 = Vec(0, 0, 0, 0)
    /\ geE = geE0
    /\ geB = geB0
    /\ geX = Vec(0, 0, 0, 0)
    /\ gePc = "done"

\* The next block of the function runs on E, b and x in place.
GaussNow == [E |-> geE, b |-> geB, x |-> geX, exact |-> TRUE]

GaussBlock(at, r, next) ==
    /\ gePc = at
    /\ geE' = r.E /\ geB' = r.b /\ geX' = r.x
    /\ gePc' = next
    /\ UNCHANGED <<geE0, geB0>>

StepJ0 == GaussBlock("j0", EliminateJ0(GaussNow), "j1")

StepJ1 == GaussBlock("j1", EliminateJ1(GaussNow), "j2")

StepJ2 == GaussBlock("j2", EliminateJ2(GaussNow), "back")

StepBack == GaussBlock("back", BackSubstitution(GaussNow), "done")

\* ========================================================================
\* Specifications
\* ========================================================================
WarpIdle == cudart9 = TRUE /\ VoteIdle /\ SyncIdle /\ ShflIdle /\ ReduceIdle /\ GaussIdle

InitAtomic == AtomicStart /\ CasIdle /\ WarpIdle

NextAtomic ==
    \/ \E t \in Threads : NativeAdd(t) /\ UNCHANGED <<casVars, cudart9, voteVars, syncVars, shflVars, reduceVars, gaussVars>>
    \/ \E t \in Threads : LoadOld(t) /\ UNCHANGED <<casVars, cudart9, voteVars, syncVars, shflVars, reduceVars, gaussVars>>
    \/ \E t \in Threads : CasAttempt(t) /\ UNCHANGED <<casVars, cudart9, voteVars, syncVars, shflVars, reduceVars, gaussVars>>
    \/ ReadObject /\ UNCHANGED <<casVars, cudart9, voteVars, syncVars, shflVars, reduceVars, gaussVars>>

SpecAtomic == InitAtomic /\ [][NextAtomic]_vars

\* atomic_add(double*) on a build without the native instruction: every
\* caller runs the compare-and-swap loop, and the scheduler keeps running
\* every thread that has not returned.
InitCasLoop == InitAtomic /\ IsDoubleKind(kind) /\ ~UsesNativeAdd(kind, arch600)

NextCasLoop ==
    \/ \E t \in Threads : LoadOld(t) /\ UNCHANGED <<casVars, cudart9, voteVars, syncVars, shflVars, reduceVars, gaussVars>>
    \/ \E t \in Threads : CasAttempt(t) /\ UNCHANGED <<casVars, cudart9, voteVars, syncVars, shflVars, reduceVars, gaussVars>>

CasLoopFairness ==
    \A t \in Threads :
        /\ WF_vars(LoadOld(t) /\ UNCHANGED <<casVars, cudart9, voteVars, syncVars, shflVars, reduceVars, gaussVars>>)
        /\ WF_vars(CasAttempt(t) /\ UNCHANGED <<casVars, cudart9, voteVars, syncVars, shflVars, reduceVars, gaussVars>>)

SpecCasLoop == InitCasLoop /\ [][NextCasLoop]_vars /\ CasLoopFairness

InitCAS == CasStart /\ AtomicIdle /\ WarpIdle

NextCAS ==
    \/ \E t \in Threads, c, v \in CasValues(64) : CallCAS64(t, c, v) /\ UNCHANGED <<atomicVars, cudart9, voteVars, syncVars, shflVars, reduceVars, gaussVars>>
    \/ \E t \in Threads, c, v \in CasValues(32) : CallCAS32(t, c, v) /\ UNCHANGED <<atomicVars, cudart9, voteVars, syncVars, shflVars, reduceVars, gaussVars>>

SpecCAS == InitCAS /\ [][NextCAS]_vars

InitVote == cudart9 \in BOOLEAN /\ VoteStart /\ SyncIdle /\ ShflIdle /\ ReduceIdle /\ AtomicIdle /\ CasIdle /\ GaussIdle

NextVote == Ballot /\ UNCHANGED <<atomicVars, casVars, cudart9, syncVars, shflVars, reduceVars, gaussVars>>

SpecVote == InitVote /\ [][NextVote]_vars

InitSync == cudart9 \in BOOLEAN /\ SyncStart /\ VoteIdle /\ ShflIdle /\ ReduceIdle /\ AtomicIdle /\ CasIdle /\ GaussIdle

NextSync ==
    \/ \E l \in SyncLanes : SyncCall(l) /\ UNCHANGED <<atomicVars, casVars, cudart9, voteVars, shflVars, reduceVars, gaussVars>>
    \/ \E l \in SyncLanes : SyncReturn(l) /\ UNCHANGED <<atomicVars, casVars, cudart9, voteVars, shflVars, reduceVars, gaussVars>>

\* Every live lane keeps being scheduled: a lane that can take its next step
\* eventually takes it.
SyncFairness ==
    \A l \in SyncLanes :
        /\ WF_vars(SyncCall(l) /\ UNCHANGED <<atomicVars, casVars, cudart9, voteVars, shflVars, reduceVars, gaussVars>>)
        /\ WF_vars(SyncReturn(l) /\ UNCHANGED <<atomicVars, casVars, cudart9, voteVars, shflVars, reduceVars, gaussVars>>)

SpecSync == InitSync /\ [][NextSync]_vars /\ SyncFairness

InitShfl == cudart9 \in BOOLEAN /\ ShflStart /\ VoteIdle /\ SyncIdle /\ ReduceIdle /\ AtomicIdle /\ CasIdle /\ GaussIdle

NextShfl == Shfl /\ UNCHANGED <<atomicVars, casVars, cudart9, voteVars, syncVars, reduceVars, gaussVars>>

SpecShfl == InitShfl /\ [][NextShfl]_vars

InitGauss == GaussStart /\ AtomicIdle /\ CasIdle /\ cudart9 = TRUE /\ VoteIdle /\ SyncIdle /\ ShflIdle /\ ReduceIdle

NextGauss ==
    \/ StepJ0 /\ UNCHANGED <<atomicVars, casVars, cudart9, voteVars, syncVars, shflVars, reduceVars>>
    \/ StepJ1 /\ UNCHANGED <<atomicVars, casVars, cudart9, voteVars, syncVars, shflVars, reduceVars>>
    \/ StepJ2 /\ UNCHANGED <<atomicVars, casVars, cudart9, voteVars, syncVars, shflVars, reduceVars>>
    \/ StepBack /\ UNCHANGED <<atomicVars, casVars, cudart9, voteVars, syncVars, shflVars, reduceVars>>

SpecGauss == InitGauss /\ [][NextGauss]_vars

InitReduce ==
    cudart9 \in BOOLEAN /\ ReduceStart /\ VoteIdle /\ SyncIdle /\ ShflIdle /\ AtomicIdle /\ CasIdle /\ GaussIdle

NextReduce ==
    \/ Pow2Step /\ UNCHANGED <<atomicVars, casVars, cudart9, voteVars, syncVars, shflVars, gaussVars>>
    \/ LinearStep /\ UNCHANGED <<atomicVars, casVars, cudart9, voteVars, syncVars, shflVars, gaussVars>>
    \/ ReduceReturn /\ UNCHANGED <<atomicVars, casVars, cudart9, voteVars, syncVars, shflVars, gaussVars>>

SpecReduce == InitReduce /\ [][NextReduce]_vars

\* ========================================================================
\* Claims
\* ========================================================================
RECURSIVE SumDeltas(_, _)
SumDeltas(S, h) ==
    IF S = {} THEN 0
    ELSE LET t == CHOOSE x \in S : TRUE
         IN  value[t][h] + SumDeltas(S \ {t}, h)

AllDone == \A t \in Threads : pc[t] = "done"

OnCasPath == IsDoubleKind(kind) /\ ~arch600

\* C1: once every atomic_add(double*) call that ran the compare-and-swap
\* loop has returned, the value at the address is v0 + d1 + ... + dn.
C1_FinalValueIsSum ==
    (kind = "double" /\ ~arch600 /\ AllDone) =>
        LoadScalar(kind, mem.re) = v0.re + SumDeltas(Threads, "re")

\* Every call has returned on the CAS path and some call had to retry.
C1_Witness ==
    /\ kind = "double" /\ ~arch600 /\ AllDone
    /\ \E t \in Threads : retried[t]
    /\ SumDeltas(Threads, "re") # 0

\* The threads that have completed their add on the real half, and on the
\* imaginary half, of the object.
AddedRe == {t \in Threads : idx[t] = 2 \/ pc[t] = "done"}

AddedIm == {t \in Threads : pc[t] = "done"}

\* C2: a complex atomic_add is two scalar atomic adds, the real half first
\* and the imaginary half second: at every moment the real half holds the
\* deltas of exactly the calls past their first add and the imaginary half
\* those of the calls that have returned, so the pair is not updated as one.
C2_TwoScalarAdds ==
    IsComplexKind(kind) =>
        /\ LoadScalar(kind, mem.re) = v0.re + SumDeltas(AddedRe, "re")
        /\ LoadScalar(kind, mem.im) = v0.im + SumDeltas(AddedIm, "im")

\* A reader saw the object between the two scalar adds of the only call in
\* progress: real half updated, imaginary half not.
C2_TornRead ==
    /\ IsComplexKind(kind)
    /\ seen # <<>>
    /\ \E t \in Threads :
          /\ idx[t] = 2 /\ pc[t] # "done"
          /\ \A u \in Threads \ {t} : idx[u] = 1
          /\ value[t].re # 0 /\ value[t].im # 0
          /\ seen[1] = [re |-> v0.re + value[t].re, im |-> v0.im]
          /\ seen[1] = [re |-> LoadScalar(kind, mem.re), im |-> LoadScalar(kind, mem.im)]

\* C3: every atomic_CAS call returns the integer the address held just
\* before it, stores val iff that integer equals compare, and otherwise
\* leaves the address as it was (32-bit and 64-bit, negative values too).
C3_CasContract ==
    [][LET prior == CasLoad(casWidth, casMem)
           after == CasLoad(casWidth', casMem')
       IN  /\ lastCas'.ret = prior
           /\ prior = lastCas'.compare => after = lastCas'.val
           /\ prior # lastCas'.compare => after = prior]_vars

\* A 64-bit call has just swapped one negative value for another.
C3_Witness ==
    /\ casWidth = 64
    /\ lastCas.thread # 0
    /\ lastCas.compare = Int64(-1)
    /\ lastCas.ret = Int64(-1)
    /\ lastCas.val = Int64Min
    /\ CasLoad(casWidth, casMem) = Int64Min

\* The bitmask the claim describes: the lanes of the mask whose predicate is
\* non-zero.
BallotOfMask(p, mask) == {i \in mask : p[i] # 0}

\* The predicates with those of the lanes outside the mask cleared.
WithinMask(p, mask) == [l \in Lanes |-> IF l \in mask THEN p[l] ELSE 0]

\* C4 as stated: for every mask and every predicate assignment the result of
\* ballot(p, mask) has bit i set iff lane i is in mask and holds a non-zero
\* predicate, whatever the lanes outside mask hold.
C4_AsStated ==
    voteOut # <<>> =>
        /\ voteOut[1] = BallotOfMask(voteP, voteMask)
        /\ voteOut[1] = ballot(cudart9, WithinMask(voteP, voteMask), voteMask, voteActive)

\* C4 (amended): on a build with CUDART_VERSION >= 9000 the result has bit i
\* set iff lane i is in mask and holds a non-zero predicate, whatever the
\* lanes outside mask hold; on an older build the mask is ignored and the
\* result holds the bit of every lane executing the call with a non-zero
\* predicate.
C4_BallotByBuild ==
    voteOut # <<>> =>
        IF cudart9
        THEN /\ voteOut[1] = BallotOfMask(voteP, voteMask)
             /\ voteOut[1] = ballot(cudart9, WithinMask(voteP, voteMask), voteMask, voteActive)
        ELSE voteOut[1] = BallotOfMask(voteP, voteActive)

\* On the explicit-mask build a lane outside the mask executes the call with a
\* non-zero predicate, and a lane inside the mask holds zero.
C4_Witness ==
    /\ cudart9
    /\ voteOut # <<>>
    /\ \E l \in voteActive \ voteMask : voteP[l] # 0
    /\ \E l \in voteMask : voteP[l] = 0
    /\ \E l \in voteMask : voteP[l] # 0

\* No lane of the mask is past the barrier while a lane of the mask has not
\* reached it.
BarrierHolds ==
    \A l \in syncMask : syncPc[l] = "after" => \A m \in syncMask : syncPc[m] # "before"

\* C5 as stated: in every execution no lane named in mask proceeds past its
\* syncwarp(mask) call before every lane named in mask has reached the call.
C5_AsStated == BarrierHolds

\* C5 (amended): on a build with CUDART_VERSION >= 9000 no lane named in mask
\* proceeds past its syncwarp(mask) call before every lane named in mask has
\* reached the call; on an older build syncwarp returns at once.
C5_BarrierOnSyncBuild == cudart9 => BarrierHolds

\* On the explicit-mask build one lane has passed the barrier and another is
\* still inside the call.
C5_Witness ==
    /\ cudart9
    /\ \E l, m \in syncMask : syncPc[l] = "after" /\ syncPc[m] = "inside"

MaskNamesAbsentLane == syncMask # syncComing

NoCallerPast == \A l \in SyncLanes : syncPc[l] # "after"

AllCallersPast == \A l \in syncMask : syncPc[l] = "after"

\* C6 as stated: if the mask names a lane that never reaches the call, the
\* callers never proceed; if every named lane reaches it, all proceed.
C6_AsStated ==
    /\ [](MaskNamesAbsentLane => NoCallerPast)
    /\ (~MaskNamesAbsentLane => <>AllCallersPast)

\* C6 (amended): on a build with CUDART_VERSION >= 9000, if the mask names a
\* lane that never reaches the call, the callers never proceed past it; on an
\* older build syncwarp returns at once and nothing hangs; on every build, if
\* every lane named in the mask reaches the call, each eventually proceeds.
C6_HangOnSyncBuild ==
    /\ []((cudart9 /\ MaskNamesAbsentLane) => NoCallerPast)
    /\ []((~cudart9 /\ MaskNamesAbsentLane) => <>(\A l \in syncComing : syncPc[l] = "after"))
    /\ (~MaskNamesAbsentLane => <>AllCallersPast)

\* On the explicit-mask build every caller is inside the call, stuck behind a
\* named lane that never comes.
C6_Witness ==
    /\ cudart9
    /\ MaskNamesAbsentLane
    /\ \A l \in syncComing : syncPc[l] = "inside"
    /\ Cardinality(syncComing) >= 2

FullWarpShfl == shMode = "idx" /\ shOut # <<>> /\ shActive = Lanes

\* The lane at index (sourceLane modulo groupWidth) of lane l's own sub-group
\* of groupWidth consecutive lanes.
SubGroupSource(l, src, w) == (l - (l % w)) + (src % w)

\* C7: with all lanes participating, shfl(value, sourceLane, groupWidth, mask)
\* on an int, float or double gives every lane the value held by the lane at
\* index (sourceLane modulo groupWidth) of its own sub-group of groupWidth
\* consecutive lanes; with groupWidth = warp size that is lane sourceLane.
C7_ShflReadsSubGroupLane ==
    (FullWarpShfl /\ shType \in ScalarTypes) =>
        \A l \in Lanes :
            /\ shOut[1][l] = shIn[SubGroupSource(l, shLane[l], shBound)]
            /\ (shBound = WarpSize /\ shLane[l] \in Lanes) => shOut[1][l] = shIn[shLane[l]]

\* A full warp has shuffled real64 values in sub-groups of 8 from a lane index
\* beyond the sub-group, on the build that splits the value in two halves.
C7_Witness ==
    /\ FullWarpShfl
    /\ ~cudart9
    /\ shType = "double"
    /\ shBound = 8
    /\ shLane[0] = 37
    /\ shOut[1][9] = shIn[13]

SelfExchange ==
    /\ FullWarpShfl
    /\ shType \in {"cuComplex", "cuDoubleComplex"}
    /\ shLane = lane_id
    /\ shBound = WarpSize
    /\ shMask = DEFAULT_MASK

\* C8 as stated: shfl(c, lane_id()) with the default groupWidth and mask on a
\* fully participating warp returns c unchanged in both components, for
\* cuComplex and cuDoubleComplex alike, and the groupWidth and mask reaching
\* the underlying scalar shuffles are the warp size and the all-lanes mask.
C8_AsStated ==
    SelfExchange =>
        /\ shOut[1] = shIn
        /\ \A i \in 1..Len(shCalls) :
              /\ shCalls[i].width = WarpSize
              /\ shCalls[i].hasMask => shCalls[i].mask = DEFAULT_MASK

AllOnes == [l \in Lanes |-> 1]

Repeating(n) == [l \in Lanes |-> (l % n) + 1]

EveryLaneHolds(v) == \A l \in Lanes : rdX[l] = v

\* C9 as stated: warp_reduce with Add and NUM_THREADS_PER_ITEM = 32, every
\* lane holding 1, returns 32 on every lane.
C9_AsStated ==
    (rdEntry = "Warp_reduce" /\ rdN = WarpSize /\ rdIn = AllOnes /\ rdPc = "done") =>
        EveryLaneHolds(WarpSize)

\* C9 (amended): warp_reduce with Add, every lane holding 1, returns 1 on
\* every lane for NUM_THREADS_PER_ITEM = 32 (the loop body never runs), and
\* returns 32 on every lane for NUM_THREADS_PER_ITEM = 1.
C9_FullWarpSum ==
    (rdEntry = "Warp_reduce" /\ rdIn = AllOnes /\ rdPc = "done") =>
        /\ rdN = WarpSize => (EveryLaneHolds(1) /\ rdSteps = 0)
        /\ rdN = 1 => EveryLaneHolds(WarpSize)

\* warp_reduce<32> has returned on a warp of ones.
C9_Witness ==
    /\ rdEntry = "Warp_reduce" /\ rdN = WarpSize /\ rdIn = AllOnes /\ rdPc = "done"
    /\ Warp_reduce(rdN) = "Warp_reduce_pow2"

RECURSIVE SumLanes(_, _)
SumLanes(S, x) ==
    IF S = {} THEN 0
    ELSE LET l == CHOOSE m \in S : TRUE IN x[l] + SumLanes(S \ {l}, x)

\* The lanes whose index is congruent to l modulo n.
Congruent(l, n) == {m \in Lanes : m % n = l % n}

ButterflyDone == Strategy(rdEntry, rdN) = "Warp_reduce_pow2" /\ rdPc = "done"

\* C10 as stated: with the butterfly strategy, for group size 4 over lane
\* values repeating [1,2,3,4] with Add, every lane's result is 10.
C10_AsStated ==
    (ButterflyDone /\ rdN = 4 /\ rdIn = Repeating(4)) => EveryLaneHolds(10)

\* C10 (amended): with the butterfly strategy every lane ends up holding the
\* reduction of the values of the WarpSize/N lanes whose index is congruent to
\* its own modulo the group size N; for N = 4 over lane values repeating
\* [1,2,3,4] with Add, lane l's result is 8 * ((l mod 4) + 1).
C10_ButterflyAllReduce ==
    ButterflyDone =>
        /\ \A l \in Lanes : rdX[l] = SumLanes(Congruent(l, rdN), rdIn)
        /\ (rdN = 4 /\ rdIn = Repeating(4)) =>
               \A l \in Lanes : rdX[l] = 8 * ((l % 4) + 1)

\* The butterfly for group size 4 has returned on [1,2,3,4] repeating.
C10_Witness ==
    /\ ButterflyDone /\ rdN = 4 /\ rdIn = Repeating(4)
    /\ rdSteps = 3

\* The steps each strategy takes for group size n on a warp of 32 lanes.
ButterflySteps(n) == Log2Floor(WarpSize \div n)

LinearSteps(n) == (WarpSize \div n) - 1

DispatchDone == rdEntry = "Warp_reduce" /\ rdPc = "done"

\* C11 as stated: Warp_reduce<N> runs the butterfly strategy for every N in
\* {1, 2, 4, 8, 16, 32} and the linear strategy for N in 3, 5, 6, 7, 9..15;
\* no power-of-two size runs the linear strategy.
C11_AsStated ==
    rdEntry = "Warp_reduce" =>
        /\ rdN \in {1, 2, 4, 8, 16, 32} => Strategy(rdEntry, rdN) = "Warp_reduce_pow2"
        /\ rdN \in {3, 5, 6, 7, 9, 10, 11, 12, 13, 14, 15} =>
               Strategy(rdEntry, rdN) = "Warp_reduce_linear"
        /\ (DispatchDone /\ rdN \in {1, 2, 4, 8, 16, 32}) => rdSteps = ButterflySteps(rdN)

\* C11 (amended): Warp_reduce<N> runs the butterfly strategy for N in
\* {1, 2, 8, 16, 32} and the linear strategy for N in 3, 4, 5, 6, 7, 9..15:
\* the power-of-two size 4 runs the linear strategy, taking 7 shuffle-down
\* steps where the butterfly would take 3.
C11_DispatchBySpecialization ==
    rdEntry = "Warp_reduce" =>
        /\ rdN \in {1, 2, 8, 16, 32} =>
               /\ Strategy(rdEntry, rdN) = "Warp_reduce_pow2"
               /\ rdPc = "done" => rdSteps = ButterflySteps(rdN)
        /\ rdN \in {3, 4, 5, 6, 7, 9, 10, 11, 12, 13, 14, 15} =>
               /\ Strategy(rdEntry, rdN) = "Warp_reduce_linear"
               /\ rdPc = "done" => rdSteps = LinearSteps(rdN)

\* Warp_reduce<4> has returned after the 7 steps of the linear strategy.
C11_Witness ==
    /\ DispatchDone /\ rdN = 4
    /\ rdSteps = 7
    /\ rdSteps # ButterflySteps(rdN)

LinearRuns == Strategy(rdEntry, rdN) = "Warp_reduce_linear"

LinearDone == LinearRuns /\ rdPc = "done"

\* A pass of the linear loop has just been taken.
LinearStepTaken == LinearRuns /\ rdSteps' = rdSteps + 1

\* What shfl_down( x, offset ) hands lane l of a full warp.
ReceivedFromBelow(x, l, offset) == IF l + offset < WarpSize THEN x[l + offset] ELSE x[l]

\* The index of lane l within its group of n consecutive lanes.
IntraGroupIndex(l, n) == l % n

\* The lanes l, l+n, l+2n, ... of the first WarpSize \div n groups.
Strided(l, n) == {l + k * n : k \in 0..((WarpSize \div n) - 1)}

\* The step count and the offsets of the linear strategy: the i-th step
\* shuffles down by i * N, and WarpSize/N - 1 steps are taken in all.
LinearStepsAndOffsets ==
    /\ (LinearRuns /\ rdPc = "loop") => rdI = rdSteps + 1
    /\ LinearDone => rdSteps = LinearSteps(rdN)

\* C12 as stated: the linear strategy takes WarpSize/N - 1 shuffle-down
\* steps at offsets N, 2N, ... and at each step combines the received value
\* on exactly the lanes whose index within their reduction group is less
\* than N.
C12_AsStated ==
    /\ []LinearStepsAndOffsets
    /\ [][LinearStepTaken =>
             \A l \in Lanes :
                 rdX'[l] = IF IntraGroupIndex(l, rdN) < rdN
                           THEN Add_eval(rdX[l], ReceivedFromBelow(rdX, l, rdI * rdN))
                           ELSE rdX[l]]_vars

\* C12 (amended): the linear strategy takes WarpSize/N - 1 shuffle-down steps
\* at offsets N, 2N, ... and at each step combines the received value on
\* exactly the lanes whose index in the warp (lane_id) is less than N;
\* afterwards lanes 0..N-1 hold the reduction of the lanes at their index
\* plus multiples of N and every other lane holds its own input: for N = 3
\* over lane values repeating [1,2,3], lanes 0, 1, 2 hold 10, 20, 30.
C12_LinearCombinesOnLeadingLanes ==
    /\ []LinearStepsAndOffsets
    /\ [][LinearStepTaken =>
             \A l \in Lanes :
                 rdX'[l] = IF l < rdN
                           THEN Add_eval(rdX[l], ReceivedFromBelow(rdX, l, rdI * rdN))
                           ELSE rdX[l]]_vars
    /\ [](LinearDone =>
             /\ \A l \in Lanes : l < rdN => rdX[l] = SumLanes(Strided(l, rdN), rdIn)
             /\ \A l \in Lanes : l >= rdN => rdX[l] = rdIn[l]
             /\ (rdN = 3 /\ rdIn = Repeating(3)) =>
                    (rdX[0] = 10 /\ rdX[1] = 20 /\ rdX[2] = 30 /\ rdX[3] = 1))

\* The linear strategy for group size 3 has returned on [1,2,3] repeating
\* after its 9 steps.
C12_Witness ==
    /\ LinearDone /\ rdN = 3 /\ rdIn = Repeating(3)
    /\ rdSteps = 9
    /\ rdX[0] = 10

ShflReturned == shOut # <<>>

\* C13 as stated: every shuffle collective, for every value type, hands the
\* groupWidth it was called with to each underlying shuffle, and on the
\* explicit-mask build hands the mask it was called with to each of them.
C13_AsStated ==
    ShflReturned =>
        \A i \in 1..Len(shCalls) :
            /\ shCalls[i].width = shBound
            /\ cudart9 => (shCalls[i].hasMask /\ shCalls[i].mask = shMask)

\* The single 64-bit shuffle the split path stands for.
SingleShuffle64 == Shuffle(shMode, FALSE, {}, shIn, shLane, shBound, shActive)

SplitPathReturned == ShflReturned /\ shType = "double" /\ ~cudart9

\* C16: on the build without a 64-bit shuffle, shfl, shfl_xor, shfl_down and
\* shfl_up on a real64 issue two 32-bit shuffles with the groupWidth they
\* were called with; the result is one a single 64-bit shuffle can give, and
\* every lane whose source lane executes gets the whole 64-bit pattern of
\* that lane.
C16_SplitShuffleIsOneShuffle ==
    SplitPathReturned =>
        /\ Len(shCalls) = 2
        /\ \A i \in 1..Len(shCalls) : shCalls[i].width = shBound /\ ~shCalls[i].hasMask
        /\ shOut[1] \in {SingleShuffle64.outs[c] : c \in UndefinedChoices}
        /\ \A l \in shActive :
               LET src == SourceLane(shMode, l, shLane[l], shBound)
               IN  src \in shActive => shOut[1][l] = shIn[src]

\* The split path has exchanged, in sub-groups of 8 by XOR with 5, patterns
\* whose high and low halves are both negative as ints.
C16_Witness ==
    /\ SplitPathReturned
    /\ shMode = "xor" /\ shBound = 8 /\ shLane[0] = 5 /\ shActive = Lanes
    /\ double2hiint(shIn[5]) < 0 /\ double2loint(shIn[5]) < 0
    /\ shOut[1][0] = shIn[5] /\ shOut[1][0] # shIn[0]

\* Thread t has just finished one pass of the compare-and-swap loop.
PassTaken(t) == pc[t] = "loop" /\ (pc'[t] # "loop" \/ old'[t] # old[t])

\* C14: when the callers of atomic_add(double*) run the compare-and-swap loop
\* on one address and every caller keeps being scheduled, every call
\* returns; a pass is followed by another pass of the same caller exactly
\* when the swap found a value other than the one assumed and changed
\* nothing, and a swap that found the assumed value stores the sum and ends
\* the loop at once.
C14_CasLoopTerminates ==
    /\ <>AllDone
    /\ [][\A t \in Threads :
             PassTaken(t) =>
                 LET h     == HalfOf(idx[t])
                     found == mem[h]
                 IN  /\ (pc'[t] = "loop") <=> (found # old[t])
                     /\ (found = old[t]) => mem'[h] = CasNewValue(value[t][h], old[t])
                     /\ (found # old[t]) => (mem' = mem /\ old'[t] = found)]_vars

\* Both calls on a real64 have returned; one of them had to retry and the
\* other succeeded at its first attempt.
C14_Witness ==
    /\ kind = "double" /\ ~arch600 /\ AllDone
    /\ \E t, u \in Threads : retried[t] /\ ~retried[u]
    /\ LoadScalar(kind, mem.re) = v0.re + SumDeltas(Threads, "re")

\* Row r of E0 applied to x.
RowTimes(r, x) == geE0[r][0] * x[0] + geE0[r][1] * x[1] + geE0[r][2] * x[2] + geE0[r][3] * x[3]

\* The ratio of the k=3 step of j=0.
RatioJ0K3 == geE0[3][0] \div geE0[0][0]

\* C15 as stated: on every system tried (every division exact, pivots
\* non-zero) the x returned satisfies E x = b for the E and b passed in, and
\* the j=0 step leaves in each E[3][c], c = 1..3, that entry less E[0][c]
\* times the ratio.
C15_AsStated ==
    /\ gePc = "done" => \A r \in Idx : RowTimes(r, geX) = geB0[r]
    /\ gePc = "j1" => \A c \in 1..3 : geE[3][c] = geE0[3][c] - geE0[0][c] * RatioJ0K3

LinearEntryDone == rdEntry = "Warp_reduce_linear" /\ rdPc = "done"

\* The operator applied in order to the inputs of lanes l, l+n, ..., l+k*n.
RECURSIVE FoldStrided(_, _, _)
FoldStrided(l, n, k) ==
    IF k = 0 THEN rdIn[l] ELSE Add_eval(FoldStrided(l, n, k - 1), rdIn[l + k * n])

\* The lanes beyond the last whole group of n.
TailLanes(n) == {l \in Lanes : l >= n * (WarpSize \div n)}

\* C17: Warp_reduce_linear<N, 32>::execute returns on each lane l < N the
\* operator applied in order to the inputs of lanes l, l+N, ...,
\* l+(floor(32/N)-1)*N, and on every lane >= N that lane's own input; the
\* input of a lane with index >= N*floor(32/N) reaches no other lane's
\* result.
C17_LinearResult ==
    LinearEntryDone =>
        /\ \A l \in Lanes : l < rdN => rdX[l] = FoldStrided(l, rdN, (WarpSize \div rdN) - 1)
        /\ \A l \in Lanes : l >= rdN => rdX[l] = rdIn[l]
        /\ \A t \in TailLanes(rdN) :
               LET other == Warp_reduce_linear_execute(cudart9, [rdIn EXCEPT ![t] = @ + 1000], 1, rdN)
               IN  \A l \in Lanes \ {t} : other[l] = rdX[l]

\* Warp_reduce_linear<5> has returned on lane values 1..32: lane 0 holds
\* 1+6+11+16+21+26, and lanes 30 and 31 were part of no sum.
C17_Witness ==
    /\ LinearEntryDone /\ rdN = 5 /\ rdIn = [l \in Lanes |-> l + 1]
    /\ rdX[0] = 81 /\ rdX[4] = 105 /\ rdX[5] = 6
    /\ TailLanes(rdN) = {30, 31}

Pow2EntryDone == rdEntry = "Warp_reduce_pow2" /\ rdPc = "done"

\* C18: Warp_reduce_pow2<N, 32>::execute, N a power of two in 1..32, takes
\* log2(32/N) XOR-shuffle steps (none for N = 32) and returns on each lane l
\* the sum of the inputs of exactly the 32/N lanes congruent to l modulo N,
\* so lanes whose indices differ by a multiple of N return the same value.
C18_Pow2Result ==
    Pow2EntryDone =>
        /\ rdSteps = ButterflySteps(rdN)
        /\ rdN = WarpSize => (rdSteps = 0 /\ rdX = rdIn)
        /\ \A l \in Lanes :
               /\ Cardinality(Congruent(l, rdN)) = WarpSize \div rdN
               /\ rdX[l] = SumLanes(Congruent(l, rdN), rdIn)
        /\ \A l, m \in Lanes : (l - m) % rdN = 0 => rdX[l] = rdX[m]

\* Warp_reduce_pow2<8> has returned after 2 steps on lane values 1..32:
\* lanes 0, 8, 16 and 24 all hold 1+9+17+25.
C18_Witness ==
    /\ Pow2EntryDone /\ rdN = 8 /\ rdIn = [l \in Lanes |-> l + 1]
    /\ rdSteps = 2
    /\ rdX[0] = 52 /\ rdX[24] = 52 /\ rdX[1] = 56

====
